---------------------------- MODULE Spec2Model ----------------------------
(***************************************************************************)
(* cemconv: conversion of meshes between split-indexed authoring formats   *)
(* (Wavefront OBJ, Collada) and the flat-indexed CEM v2 runtime model.     *)
(*                                                                         *)
(* Spec     the two importers (collada_import::convert, main::obj_to_cem)  *)
(*          and the OBJ emitter (main::cem2_to_obj), one step per loop     *)
(*          iteration.                                                     *)
(* SpecMain main::main and main::convert: the command line, the streams    *)
(*          and the single write of each conversion.                       *)
(*                                                                         *)
(* Numbers.  Coordinates are integers.  The rotations by +-90 degrees      *)
(* about X are modelled exactly (cos = 0, sin = +-1); the f32 rounding of  *)
(* the real program is not modelled.  Normals are taken from axis-aligned  *)
(* vectors, for which normalisation is exact; the zero vector normalises   *)
(* to NaNVec (every component NaN).                                        *)
(*                                                                         *)
(* Indices are zero-based as in the source; At(s, i) reads s[i].           *)
(***************************************************************************)
EXTENDS Integers, Sequences, FiniteSets, TLC

VARIABLES
    entry,              \* which importer runs: "collada" or "obj"
    pc,                 \* position in the running function
    object,             \* the base object (convert: object, obj_to_cem: i)
    object_frames,      \* convert: the morph targets, in linkage order
    index,              \* convert: the validation loop's enumerate() index
    failed_index,       \* convert: None or Some(index)
    examined,           \* convert: indices of the candidates the loop body has inspected
    associations,       \* convert: Vec of canonical triples, by flat index
    reverse,            \* convert: HashMap canonical triple -> flat index
    triangles,          \* both importers: the rewritten triangle buffer
    cursor,             \* position of the running loop (shape, frame, vertex or triangle)
    frames,             \* convert: Vec<Frame> under construction
    center,             \* both importers: the model's center
    vertices,           \* obj_to_cem: Vec<v2::Vertex>
    vertex_associations,\* obj_to_cem: HashMap VTNIndex -> flat index
    model,              \* the V2 an importer returns
    frame_index,        \* cem2_to_obj: the frame to emit
    string,             \* cem2_to_obj: the text emitted so far, line by line
    panic,              \* the panic message of an aborted run, or None
    opt,                \* main: the command line (struct Opt)
    files,              \* main: the file system, path -> content
    stdin,              \* main: the content waiting on standard input
    format,             \* main: the parsed output format, None before parsing
    input_format,       \* main: the parsed input format, None before parsing
    i_stream,           \* convert's i: the opened input stream (its content), or None
    o_stream,           \* convert's o: None, Some("stdout") or Some(path of the file)
    stdout,             \* main: what was written to standard output
    disk_full,          \* main: whether a write to the output fails part-way
    stderr              \* main: the diagnostics printed

importVars == <<entry, object, object_frames, index, failed_index, examined,
                associations, reverse, triangles, cursor, frames, center, vertices,
                vertex_associations, model, frame_index, string>>

cliVars == <<opt, files, stdin, format, input_format, i_stream, o_stream, stdout,
            disk_full, stderr>>

vars == <<importVars, pc, panic, cliVars>>

-----------------------------------------------------------------------------
(* Option<T>: None is the empty tuple, Some(x) the one-element tuple.       *)
None == <<>>
Some(x) == <<x>>
Unwrap(o) == o[1]

At(s, i) == s[i + 1]
InRange(s, i) == i >= 0 /\ i < Len(s)
Last(s) == s[Len(s)]

RECURSIVE Flatten(_)
Flatten(ss) == IF ss = <<>> THEN <<>> ELSE Head(ss) \o Flatten(Tail(ss))

-----------------------------------------------------------------------------
(* cgmath                                                                   *)

\* The vector every component of which is NaN.
NaNVec == <<>>

ISqrt(n) == CHOOSE r \in 0..n : r * r = n

\* InnerSpace::normalize: v / |v|; 0/0 is NaN.
Normalize(v) ==
    IF v = NaNVec THEN NaNVec
    ELSE LET len2 == v[1] * v[1] + v[2] * v[2] + v[3] * v[3]
         IN  IF len2 = 0 THEN NaNVec
             ELSE LET len == ISqrt(len2)
                  IN  <<v[1] \div len, v[2] \div len, v[3] \div len>>

\* Matrix4::from_angle_x(Deg(90.0)) * v: y' = -z, z' = y.
RotateXPlus90(v) == IF v = NaNVec THEN NaNVec ELSE <<v[1], -v[3], v[2]>>

\* The export rotating the same way as the import.
RotateXMinus90SameSign(v) == IF v = NaNVec THEN NaNVec ELSE <<v[1], -v[3], v[2]>>

\* Matrix4::from_angle_x(Deg(-90.0)) * v: y' = z, z' = -y.
RotateXMinus90(v) == IF v = NaNVec THEN NaNVec ELSE <<v[1], v[3], -v[2]>>

-----------------------------------------------------------------------------
(* cem: collider::CenterBuilder and v2::Frame::from_vertices                *)

Origin == <<0, 0, 0>>

Min(S) == CHOOSE x \in S : \A y \in S : x <= y
Max(S) == CHOOSE x \in S : \A y \in S : x >= y

\* CenterBuilder::begin, one update per position, build: the middle of the
\* positions' bounding box, the origin when there was no update.
CenterOf(positions) ==
    IF positions = <<>> THEN Origin
    ELSE [k \in 1..3 |->
            LET cs == {positions[j][k] : j \in 1..Len(positions)}
            IN  (Min(cs) + Max(cs)) \div 2]

Positions(vs) == [j \in 1..Len(vs) |-> vs[j].position]

\* v2::Frame::from_vertices(vertices, tag_points, center)
FrameFromVertices(vs, tag_points, c) ==
    [vertices |-> vs, tag_points |-> tag_points, center |-> c]

-----------------------------------------------------------------------------
(* Inputs: split-indexed objects                                            *)

Triangle(a, b, c) == [kind |-> "Triangle", v |-> <<a, b, c>>]
Line(a, b) == [kind |-> "Line", v |-> <<a, b>>]
Point(a) == [kind |-> "Point", v |-> <<a>>]

\* Four corners of a quad: VTNIndex (position, Option texture, Option normal).
CornerA == <<0, None, None>>
CornerB == <<1, Some(0), None>>
CornerC == <<2, Some(0), Some(0)>>
CornerD == <<3, None, Some(0)>>

Geom(shapes) == [shapes |-> shapes]

\* The quad as two triangles sharing the edge A-C, with a line and a point.
QuadShapes ==
    <<Triangle(CornerA, CornerB, CornerC), Line(CornerA, CornerB),
      Triangle(CornerA, CornerC, CornerD), Point(CornerD)>>

GeometryLists ==
    { <<Geom(QuadShapes)>>,
      \* the second triangle references other corners
      <<Geom(<<QuadShapes[1], QuadShapes[2],
               Triangle(CornerA, CornerD, CornerC), QuadShapes[4]>>)>>,
      \* another primitive kind in the second place
      <<Geom(<<QuadShapes[1], Point(CornerA), QuadShapes[3], QuadShapes[4]>>)>>,
      \* one shape fewer
      <<Geom(SubSeq(QuadShapes, 1, 3))>>,
      \* the same shapes in two geometries
      <<Geom(SubSeq(QuadShapes, 1, 1)), Geom(SubSeq(QuadShapes, 2, 4))>>,
      \* a triangle that repeats a corner
      <<Geom(<<Triangle(CornerB, CornerB, CornerC)>>)>>,
      \* the line references another corner
      <<Geom(<<QuadShapes[1], Line(CornerA, CornerC), QuadShapes[3], QuadShapes[4]>>)>>,
      \* the point references another corner
      <<Geom(<<QuadShapes[1], QuadShapes[2], QuadShapes[3], Point(CornerA)>>)>> }

Attrs(vs, ts, ns) == [vertices |-> vs, tex_vertices |-> ts, normals |-> ns]

BaseAttrs ==
    Attrs(<<<<0, 0, 0>>, <<2, 0, 0>>, <<2, 4, 0>>, <<0, 4, 6>>>>,
          <<<<3, 2>>>>, <<<<0, 2, 0>>>>)

AttrSets ==
    { BaseAttrs,
      \* same counts, other values
      Attrs(<<<<2, 0, 0>>, <<4, 0, 0>>, <<4, 4, 0>>, <<2, 4, 8>>>>,
            <<<<1, 1>>>>, <<<<0, 0, 1>>>>),
      \* one position fewer: CornerD's position is out of range
      Attrs(SubSeq(BaseAttrs.vertices, 1, 3), BaseAttrs.tex_vertices, BaseAttrs.normals),
      \* one texture coordinate more
      Attrs(BaseAttrs.vertices, <<<<3, 2>>, <<1, 1>>>>, BaseAttrs.normals),
      \* one normal more, and a zero normal at index 0
      Attrs(BaseAttrs.vertices, BaseAttrs.tex_vertices, <<<<0, 0, 0>>, <<0, 2, 0>>>>) }

Obj(a, g) ==
    [vertices |-> a.vertices, tex_vertices |-> a.tex_vertices,
     normals |-> a.normals, geometry |-> g]

Objects ==
    {Obj(a, <<Geom(QuadShapes)>>) : a \in AttrSets}
        \cup {Obj(BaseAttrs, g) : g \in GeometryLists}

\* The number of morph targets linked to the base.
MaxFrames == 3

FrameLists == UNION {[1..n -> Objects] : n \in 0..MaxFrames}

\* Every shape of an object, geometry by geometry.
Shapes(o) == Flatten([g \in 1..Len(o.geometry) |-> o.geometry[g].shapes])

-----------------------------------------------------------------------------
(* collada_import.rs                                                        *)

\* A comparison that looks at the indices of triangles only.
compare_shape_triangles_only(base, frame) ==
    base.kind = frame.kind /\ (base.kind = "Triangle" => base.v = frame.v)

compare_shape(base, frame) == base.kind = frame.kind /\ base.v = frame.v

compare_geometry(base, frame) ==
    /\ Len(base) = Len(frame)
    /\ \A k \in 1..Len(base) : compare_shape(base[k], frame[k])

\* A validation that also compares the attribute values.
FramePassesSameValues(base, frame) ==
    /\ base.vertices = frame.vertices
    /\ base.normals = frame.normals
    /\ base.tex_vertices = frame.tex_vertices
    /\ base.geometry = frame.geometry

\* The body of the validation loop: TRUE when the candidate passes.
FramePasses(base, frame) ==
    /\ Len(base.vertices) = Len(frame.vertices)
    /\ Len(base.normals) = Len(frame.normals)
    /\ Len(base.tex_vertices) = Len(frame.tex_vertices)
    /\ Len(base.geometry) = Len(frame.geometry)
    /\ \A g \in 1..Len(base.geometry) :
          compare_geometry(base.geometry[g].shapes, frame.geometry[g].shapes)

invalid_texture_index(o) == Len(o.tex_vertices)
invalid_normal_index(o) == Len(o.normals)

\* dedup_vertex's canonical triple.
Canonical(o, v) ==
    << v[1],
       IF v[2] = None THEN invalid_texture_index(o) ELSE Unwrap(v[2]),
       IF v[3] = None THEN invalid_normal_index(o) ELSE Unwrap(v[3]) >>

\* dedup_vertex without the lookup: every corner gets a new flat vertex.
dedup_vertex_always_new(o, d, v) ==
    LET vertex == Canonical(o, v)
    IN  [associations |-> Append(d.associations, vertex),
         reverse |-> (vertex :> Len(d.associations)) @@ d.reverse,
         index |-> Len(d.associations)]

\* dedup_vertex on the tables d = [associations, reverse]: the tables after
\* the call and the flat index returned.
dedup_vertex(o, d, v) ==
    LET vertex == Canonical(o, v)
    IN  IF vertex \in DOMAIN d.reverse
        THEN [associations |-> d.associations, reverse |-> d.reverse,
              index |-> d.reverse[vertex]]
        ELSE [associations |-> Append(d.associations, vertex),
              reverse |-> (vertex :> Len(d.associations)) @@ d.reverse,
              index |-> Len(d.associations)]

\* The loop body with the second and third corner exchanged.
DedupShapeSwapped(o, d, tris, shape) ==
    IF shape.kind = "Triangle"
    THEN LET a == dedup_vertex(o, d, shape.v[1])
             b == dedup_vertex(o, a, shape.v[2])
             c == dedup_vertex(o, b, shape.v[3])
         IN  [associations |-> c.associations, reverse |-> c.reverse,
              triangles |-> Append(tris, <<a.index, c.index, b.index>>)]
    ELSE [associations |-> d.associations, reverse |-> d.reverse, triangles |-> tris]

\* One iteration of the loop over the base's shapes.
DedupShape(o, d, tris, shape) ==
    IF shape.kind = "Triangle"
    THEN LET a == dedup_vertex(o, d, shape.v[1])
             b == dedup_vertex(o, a, shape.v[2])
             c == dedup_vertex(o, b, shape.v[3])
         IN  [associations |-> c.associations, reverse |-> c.reverse,
              triangles |-> Append(tris, <<a.index, b.index, c.index>>)]
    ELSE [associations |-> d.associations, reverse |-> d.reverse, triangles |-> tris]

ColladaDefaultTexture == <<0, 0>>
ColladaDefaultNormal == <<1, 0, 0>>

\* A missing reference read as index 0 of the source array.
GetOrFirst(s, i, default) ==
    IF InRange(s, i) THEN At(s, i) ELSE IF s # <<>> THEN At(s, 0) ELSE default

\* Vec::get(i).unwrap_or(default)
GetOr(s, i, default) == IF InRange(s, i) THEN At(s, i) ELSE default

\* extract_frame indexes from.vertices directly: out of range panics.
ExtractPanics(from, indices) ==
    \E k \in 1..Len(indices) : ~InRange(from.vertices, indices[k][1])

ExtractVertex(from, triple) ==
    LET position == At(from.vertices, triple[1])
        texture == GetOr(from.tex_vertices, triple[2], ColladaDefaultTexture)
        normal == GetOr(from.normals, triple[3], ColladaDefaultNormal)
    IN  [position |-> RotateXPlus90(position),
         normal |-> RotateXPlus90(Normalize(normal)),
         texture |-> <<texture[1], 1 - texture[2]>>]

\* extract_frame: (center, frame)
extract_frame(from, indices, tag_points) ==
    LET vs == [k \in 1..Len(indices) |-> ExtractVertex(from, indices[k])]
        c == CenterOf(Positions(vs))
    IN  <<c, FrameFromVertices(vs, tag_points, c)>>

\* The single material and the model both importers assemble.
MakeV2(c, tris, vertex_count, fs) ==
    [center |-> c,
     materials |-> <<[name |-> "", texture |-> 0,
                      triangles |-> <<[offset |-> 0, len |-> Len(tris)]>>,
                      vertex_offset |-> 0, vertex_count |-> vertex_count,
                      texture_name |-> ""]>>,
     lod_levels |-> <<tris>>,
     tag_points |-> <<>>,
     frames |-> fs]

NoModel == [center |-> Origin, materials |-> <<>>, lod_levels |-> <<>>,
            tag_points |-> <<>>, frames |-> <<>>]

ObjIdle ==
    /\ vertices = <<>>
    /\ vertex_associations = <<>>
    /\ frame_index = 0
    /\ string = <<>>

\* The importers are library functions: no command line is involved.
CliIdle ==
    /\ opt = None
    /\ files = <<>>
    /\ stdin = None
    /\ format = None
    /\ input_format = None
    /\ i_stream = None
    /\ o_stream = None
    /\ stdout = <<>>
    /\ disk_full = FALSE
    /\ stderr = <<>>

InitCollada ==
    /\ entry = "collada"
    /\ pc = "validate"
    /\ object \in Objects
    /\ object_frames \in FrameLists
    /\ index = 0
    /\ failed_index = None
    /\ examined = <<>>
    /\ associations = <<>>
    /\ reverse = <<>>
    /\ triangles = <<>>
    /\ cursor = 0
    /\ frames = <<>>
    /\ center = Origin
    /\ model = NoModel
    /\ panic = None
    /\ ObjIdle
    /\ CliIdle

\* The validation loop without its break: the last failure is reported.
ValidateFrameNoBreak ==
    /\ entry = "collada" /\ pc = "validate"
    /\ index < Len(object_frames)
    /\ examined' = Append(examined, index)
    /\ index' = index + 1
    /\ failed_index' = IF FramePasses(object, At(object_frames, index))
                       THEN failed_index ELSE Some(index)
    /\ UNCHANGED <<entry, pc, object, object_frames, associations, reverse, triangles,
                   cursor, frames, center, vertices, vertex_associations, model,
                   frame_index, string, panic>>
    /\ UNCHANGED cliVars

\* for (index, frame) in object_frames.iter().enumerate() { ... }
ValidateFrame ==
    /\ entry = "collada" /\ pc = "validate"
    /\ index < Len(object_frames)
    /\ examined' = Append(examined, index)
    /\ IF FramePasses(object, At(object_frames, index))
       THEN /\ index' = index + 1
            /\ UNCHANGED <<failed_index, pc>>
       ELSE /\ failed_index' = Some(index)
            /\ pc' = "validated"
            /\ UNCHANGED index
    /\ UNCHANGED <<entry, object, object_frames, associations, reverse, triangles,
                   cursor, frames, center, vertices, vertex_associations, model,
                   frame_index, string, panic>>
    /\ UNCHANGED cliVars

\* The loop is left (exhausted, or by break); a failed index panics.
FinishValidation ==
    /\ entry = "collada"
    /\ \/ pc = "validated"
       \/ pc = "validate" /\ index = Len(object_frames)
    /\ IF failed_index # None
       THEN /\ panic' = Some(<<"uses different geometry", Unwrap(failed_index)>>)
            /\ pc' = "panicked"
       ELSE /\ pc' = "dedup"
            /\ UNCHANGED panic
    /\ UNCHANGED <<entry, object, object_frames, index, failed_index, examined,
                   associations, reverse, triangles, cursor, frames, center,
                   vertices, vertex_associations, model, frame_index, string>>
    /\ UNCHANGED cliVars

\* for geometry in &object.geometry { for shape in &geometry.shapes { ... } }
DedupStep ==
    /\ entry = "collada" /\ pc = "dedup"
    /\ cursor < Len(Shapes(object))
    /\ LET r == DedupShape(object, [associations |-> associations, reverse |-> reverse],
                           triangles, At(Shapes(object), cursor))
       IN  /\ associations' = r.associations
           /\ reverse' = r.reverse
           /\ triangles' = r.triangles
    /\ cursor' = cursor + 1
    /\ UNCHANGED <<entry, pc, object, object_frames, index, failed_index, examined,
                   frames, center, vertices, vertex_associations, model,
                   frame_index, string, panic>>
    /\ UNCHANGED cliVars

\* let (center, frame0) = extract_frame(&object, &associations, vec![]);
ExtractBase ==
    /\ entry = "collada" /\ pc = "dedup"
    /\ cursor = Len(Shapes(object))
    /\ IF ExtractPanics(object, associations)
       THEN /\ panic' = Some(<<"index out of bounds", 0>>)
            /\ pc' = "panicked"
            /\ UNCHANGED <<center, frames, cursor>>
       ELSE /\ LET r == extract_frame(object, associations, <<>>)
               IN  /\ center' = r[1]
                   /\ frames' = <<r[2]>>
            /\ cursor' = 0
            /\ pc' = "frames"
            /\ UNCHANGED panic
    /\ UNCHANGED <<entry, object, object_frames, index, failed_index, examined,
                   associations, reverse, triangles, vertices, vertex_associations,
                   model, frame_index, string>>
    /\ UNCHANGED cliVars

\* The loop extracting every additional frame from the base object.
ExtractAdditionalFromBase ==
    /\ entry = "collada" /\ pc = "frames"
    /\ cursor < Len(object_frames)
    /\ IF ExtractPanics(object, associations)
       THEN /\ panic' = Some(<<"index out of bounds", cursor + 1>>)
            /\ pc' = "panicked"
            /\ UNCHANGED <<frames, cursor>>
       ELSE /\ frames' = Append(frames, extract_frame(object, associations, <<>>)[2])
            /\ cursor' = cursor + 1
            /\ UNCHANGED <<panic, pc>>
    /\ UNCHANGED <<entry, object, object_frames, index, failed_index, examined,
                   associations, reverse, triangles, center, vertices,
                   vertex_associations, model, frame_index, string>>
    /\ UNCHANGED cliVars

\* for additional_frame in &object_frames { frames.push(extract_frame(..).1) }
ExtractAdditional ==
    /\ entry = "collada" /\ pc = "frames"
    /\ cursor < Len(object_frames)
    /\ IF ExtractPanics(At(object_frames, cursor), associations)
       THEN /\ panic' = Some(<<"index out of bounds", cursor + 1>>)
            /\ pc' = "panicked"
            /\ UNCHANGED <<frames, cursor>>
       ELSE /\ frames' = Append(frames,
                    extract_frame(At(object_frames, cursor), associations, <<>>)[2])
            /\ cursor' = cursor + 1
            /\ UNCHANGED <<panic, pc>>
    /\ UNCHANGED <<entry, object, object_frames, index, failed_index, examined,
                   associations, reverse, triangles, center, vertices,
                   vertex_associations, model, frame_index, string>>
    /\ UNCHANGED cliVars

\* v2::V2 { center, materials, lod_levels, tag_points, frames }
AssembleCollada ==
    /\ entry = "collada" /\ pc = "frames"
    /\ cursor = Len(object_frames)
    /\ model' = MakeV2(center, triangles, Len(associations), frames)
    /\ pc' = "done"
    /\ UNCHANGED <<entry, object, object_frames, index, failed_index, examined,
                   associations, reverse, triangles, cursor, frames, center,
                   vertices, vertex_associations, frame_index, string, panic>>
    /\ UNCHANGED cliVars

-----------------------------------------------------------------------------
(* main.rs: obj_to_cem                                                      *)

\* A wavefront_obj object: texture coordinates are (u, v, w).
AsWavefront(o) ==
    [o EXCEPT !.tex_vertices =
        [k \in 1..Len(o.tex_vertices) |->
            <<o.tex_vertices[k][1], o.tex_vertices[k][2], 0>>]]

WavefrontObjects == {AsWavefront(Obj(a, g)) : a \in AttrSets, g \in GeometryLists}

ObjDefaultTexture == <<0, 0, 0>>
ObjDefaultNormal == <<1, 0, 0>>

\* resolve_index indexes the three source arrays directly.
ResolvePanics(i, v) ==
    \/ ~InRange(i.vertices, v[1])
    \/ v[2] # None /\ ~InRange(i.tex_vertices, Unwrap(v[2]))
    \/ v[3] # None /\ ~InRange(i.normals, Unwrap(v[3]))

\* The closure passed to or_insert_with, up to the vertex it pushes.
ResolveVertex(i, v) ==
    LET position == At(i.vertices, v[1])
        texture == IF v[2] = None THEN ObjDefaultTexture
                   ELSE At(i.tex_vertices, Unwrap(v[2]))
        normal == IF v[3] = None THEN ObjDefaultNormal
                  ELSE At(i.normals, Unwrap(v[3]))
    IN  [position |-> RotateXPlus90(position),
         normal |-> RotateXPlus90(Normalize(normal)),
         texture |-> <<texture[1], texture[2]>>]

\* resolve_index returning, for a corner seen before, the newest index.
resolve_index_newest(i, r, v) ==
    IF r.panicked THEN r
    ELSE IF v \in DOMAIN r.vertex_associations
    THEN [r EXCEPT !.index = Len(r.vertices) - 1]
    ELSE IF ResolvePanics(i, v) THEN [r EXCEPT !.panicked = TRUE]
    ELSE [vertices |-> Append(r.vertices, ResolveVertex(i, v)),
          vertex_associations |-> (v :> Len(r.vertices)) @@ r.vertex_associations,
          panicked |-> FALSE,
          index |-> Len(r.vertices)]

\* resolve_index on r = [vertices, vertex_associations, panicked]: the state
\* after the call and the index returned.  A panic ends the run.
resolve_index(i, r, v) ==
    IF r.panicked THEN r
    ELSE IF v \in DOMAIN r.vertex_associations
    THEN [r EXCEPT !.index = r.vertex_associations[v]]
    ELSE IF ResolvePanics(i, v) THEN [r EXCEPT !.panicked = TRUE]
    ELSE [vertices |-> Append(r.vertices, ResolveVertex(i, v)),
          vertex_associations |-> (v :> Len(r.vertices)) @@ r.vertex_associations,
          panicked |-> FALSE,
          index |-> Len(r.vertices)]

\* One iteration of the loop over the object's primitives.
ResolvePrimitive(i, r, tris, primitive) ==
    IF primitive.kind = "Triangle"
    THEN LET v0 == resolve_index(i, r, primitive.v[1])
             v1 == resolve_index(i, v0, primitive.v[2])
             v2 == resolve_index(i, v1, primitive.v[3])
         IN  [vertices |-> v2.vertices,
              vertex_associations |-> v2.vertex_associations,
              panicked |-> v2.panicked,
              triangles |-> IF v2.panicked THEN tris
                            ELSE Append(tris, <<v0.index, v1.index, v2.index>>)]
    ELSE [vertices |-> r.vertices, vertex_associations |-> r.vertex_associations,
          panicked |-> FALSE, triangles |-> tris]

InitObj ==
    /\ entry = "obj"
    /\ pc = "resolve"
    /\ object \in WavefrontObjects
    /\ object_frames = <<>>
    /\ index = 0
    /\ failed_index = None
    /\ examined = <<>>
    /\ associations = <<>>
    /\ reverse = <<>>
    /\ triangles = <<>>
    /\ cursor = 0
    /\ frames = <<>>
    /\ center = Origin
    /\ model = NoModel
    /\ panic = None
    /\ ObjIdle
    /\ CliIdle

\* for geometry in &i.geometry { for primitive in ... { ... } }
ResolveStep ==
    /\ entry = "obj" /\ pc = "resolve"
    /\ cursor < Len(Shapes(object))
    /\ LET r == ResolvePrimitive(object,
                    [vertices |-> vertices, vertex_associations |-> vertex_associations,
                     panicked |-> FALSE, index |-> 0],
                    triangles, At(Shapes(object), cursor))
       IN  IF r.panicked
           THEN /\ panic' = Some(<<"index out of bounds", cursor>>)
                /\ pc' = "panicked"
                /\ UNCHANGED <<vertices, vertex_associations, triangles, cursor>>
           ELSE /\ vertices' = r.vertices
                /\ vertex_associations' = r.vertex_associations
                /\ triangles' = r.triangles
                /\ cursor' = cursor + 1
                /\ UNCHANGED <<panic, pc>>
    /\ UNCHANGED <<entry, object, object_frames, index, failed_index, examined,
                   associations, reverse, frames, center, model, frame_index, string>>
    /\ UNCHANGED cliVars

\* The center of the vertices, then V2 { .. } with its single frame.
AssembleObj ==
    /\ entry = "obj" /\ pc = "resolve"
    /\ cursor = Len(Shapes(object))
    /\ LET c == CenterOf(Positions(vertices))
       IN  /\ center' = c
           /\ model' = MakeV2(c, triangles, Len(vertices),
                              <<FrameFromVertices(vertices, <<>>, c)>>)
    /\ pc' = "done"
    /\ UNCHANGED <<entry, object, object_frames, index, failed_index, examined,
                   associations, reverse, triangles, cursor, frames, vertices,
                   vertex_associations, frame_index, string, panic>>
    /\ UNCHANGED cliVars

-----------------------------------------------------------------------------
(* main.rs: cem2_to_obj                                                     *)

TextLine(tag, args) == [tag |-> tag, args |-> args]

\* The three lines written for one vertex of the frame.
VertexLines(vertex) ==
    << TextLine("v", RotateXMinus90(vertex.position)),
       TextLine("vn", RotateXMinus90(Normalize(vertex.normal))),
       TextLine("vt", vertex.texture) >>

\* The face line of one triangle: one-based, the same index three times.
FaceLine(material, triangle) ==
    LET i0 == material.vertex_offset + triangle[1] + 1
        i1 == material.vertex_offset + triangle[2] + 1
        i2 == material.vertex_offset + triangle[3] + 1
    IN  TextLine("f", <<<<i0, i0, i0>>, <<i1, i1, i1>>, <<i2, i2, i2>>>>)

\* The comment line of a material and the faces of its first selection.
MaterialLines(cem, material) ==
    LET triangle_slice == At(material.triangles, 0)
        triangle_data == At(cem.lod_levels, 0)
    IN  <<TextLine("#", <<material.name, material.texture, material.texture_name>>)>>
        \o [k \in 1..triangle_slice.len |->
                FaceLine(material, At(triangle_data, (k - 1) + triangle_slice.offset))]

\* convert calls cem2_to_obj only with a frame index the model has.
BeginExport ==
    /\ pc = "done"
    /\ frame_index' \in 0..(Len(model.frames) - 1)
    /\ cursor' = 0
    /\ string' = <<>>
    /\ pc' = "emit_vertices"
    /\ UNCHANGED <<entry, object, object_frames, index, failed_index, examined,
                   associations, reverse, triangles, frames, center, vertices,
                   vertex_associations, model, panic>>
    /\ UNCHANGED cliVars

\* for &v2::Vertex { position, normal, texture } in frame.vertices.iter()
EmitVertex ==
    /\ pc = "emit_vertices"
    /\ cursor < Len(At(model.frames, frame_index).vertices)
    /\ string' = string \o VertexLines(At(At(model.frames, frame_index).vertices, cursor))
    /\ cursor' = cursor + 1
    /\ UNCHANGED <<entry, pc, object, object_frames, index, failed_index, examined,
                   associations, reverse, triangles, frames, center, vertices,
                   vertex_associations, model, frame_index, panic>>
    /\ UNCHANGED cliVars

\* for material in &cem.materials { ... }, then the string is returned.
EmitMaterials ==
    /\ pc = "emit_vertices"
    /\ cursor = Len(At(model.frames, frame_index).vertices)
    /\ string' = string \o Flatten([m \in 1..Len(model.materials) |->
                                        MaterialLines(model, model.materials[m])])
    /\ pc' = "exported"
    /\ UNCHANGED <<entry, object, object_frames, index, failed_index, examined,
                   associations, reverse, triangles, cursor, frames, center,
                   vertices, vertex_associations, model, frame_index, panic>>
    /\ UNCHANGED cliVars

-----------------------------------------------------------------------------
(* main.rs: the command line                                                *)

\* obj_to_cem as one call: every primitive resolved, then the model.
RECURSIVE ResolveAll(_, _)
ResolveAll(ob, n) ==
    IF n = 0
    THEN [vertices |-> <<>>, vertex_associations |-> <<>>, panicked |-> FALSE,
          triangles |-> <<>>]
    ELSE LET before == ResolveAll(ob, n - 1)
         IN  IF before.panicked THEN before
             ELSE ResolvePrimitive(ob,
                      [vertices |-> before.vertices,
                       vertex_associations |-> before.vertex_associations,
                       panicked |-> FALSE, index |-> 0],
                      before.triangles, Shapes(ob)[n])

obj_to_cem(ob) ==
    LET r == ResolveAll(ob, Len(Shapes(ob)))
        c == CenterOf(Positions(r.vertices))
    IN  IF r.panicked THEN None
        ELSE Some(MakeV2(c, r.triangles, Len(r.vertices),
                         <<FrameFromVertices(r.vertices, <<>>, c)>>))

\* The text of the first frame, whichever frame is asked for.
cem2_to_obj_first_frame(cem, n) ==
    Flatten([k \in 1..Len(At(cem.frames, 0).vertices) |->
                VertexLines(At(cem.frames, 0).vertices[k])])
    \o Flatten([m \in 1..Len(cem.materials) |-> MaterialLines(cem, cem.materials[m])])

\* cem2_to_obj as one call: the whole text.
cem2_to_obj(cem, n) ==
    Flatten([k \in 1..Len(At(cem.frames, n).vertices) |->
                VertexLines(At(cem.frames, n).vertices[k])])
    \o Flatten([m \in 1..Len(cem.materials) |-> MaterialLines(cem, cem.materials[m])])

\* Format::parse
Cem(version, n) == [kind |-> "Cem", version |-> version, frame_index |-> n]

FormatParse(token, n) ==
    LET fi == IF n = None THEN 0 ELSE Unwrap(n)
    IN  CASE token = "cem1.3" -> Some(Cem(<<1, 3>>, fi))
          [] token = "cem2" -> Some(Cem(<<2, 0>>, fi))
          [] token = "cem" -> Some(Cem(<<2, 0>>, fi))
          [] token = "ssmf" -> Some(Cem(<<2, 0>>, fi))
          [] token = "obj" -> Some([kind |-> "Obj"])
          [] OTHER -> None

\* The input format of lines 62-65.
InputFormatOf(args) ==
    LET parsed == FormatParse(IF args.input_format = None THEN ""
                              ELSE Unwrap(args.input_format), args.frame_index)
    IN  IF parsed # None THEN Unwrap(parsed)
        ELSE Cem(<<2, 0>>, IF args.frame_index = None THEN 0
                           ELSE Unwrap(args.frame_index))

V2Header == <<2, 0>>

\* What the input holds.
ObjText(objects) == [kind |-> "obj", objects |-> objects]
ObjSyntaxError == [kind |-> "obj_syntax_error"]
CemFile(header, body, complete) ==
    [kind |-> "cem", header |-> header, model |-> body, complete |-> complete]
EmptyInput == [kind |-> "empty"]

\* The vertices of the f-th frame of a stored model: one triangle, moved by f in x.
StoredVertex(x, y) ==
    [position |-> <<x, y, 0>>, normal |-> <<0, 0, 1>>, texture |-> <<x, y>>]

StoredFrame(f) ==
    FrameFromVertices(<<StoredVertex(f, 0), StoredVertex(f + 2, 0), StoredVertex(f, 2)>>,
                      <<>>, Origin)

StoredModel(n) == MakeV2(Origin, <<<<0, 1, 2>>>>, 3, [f \in 1..n |-> StoredFrame(f)])

\* The largest number of frames in a stored model.
MaxStoredFrames == 2

\* The largest frame index given on the command line.
MaxFrameArg == 2

Contents ==
    { ObjText(<<AsWavefront(Obj(BaseAttrs, <<Geom(QuadShapes)>>))>>),
      ObjText(<<AsWavefront(Obj(Attrs(SubSeq(BaseAttrs.vertices, 1, 3),
                                      BaseAttrs.tex_vertices, BaseAttrs.normals),
                                <<Geom(QuadShapes)>>))>>),
      ObjText(<<>>),
      ObjSyntaxError,
      CemFile(<<1, 3>>, NoModel, TRUE),
      CemFile(V2Header, StoredModel(1), FALSE),
      EmptyInput }
        \cup {CemFile(V2Header, StoredModel(n), TRUE) : n \in 0..MaxStoredFrames}

\* read_to_string and obj::parse on the input: the objects, or the error.
ReadObj(content) ==
    CASE content.kind = "obj" -> [ok |-> TRUE, objects |-> content.objects]
      [] content.kind = "empty" -> [ok |-> TRUE, objects |-> <<>>]
      [] content.kind = "obj_syntax_error" ->
            [ok |-> FALSE, error |-> "Error in OBJ file on line"]
      [] OTHER -> [ok |-> FALSE, error |-> "stream did not contain valid UTF-8"]

\* ModelHeader::read on the input: the header, or the error.
ReadHeader(content) ==
    CASE content.kind = "cem" -> [ok |-> TRUE, header |-> content.header]
      [] content.kind = "empty" -> [ok |-> FALSE, error |-> "failed to fill whole buffer"]
      [] OTHER -> [ok |-> TRUE, header |-> <<0, 0>>]

Returns(chunks) == [output |-> chunks, error |-> None, panics |-> None]
Fails(chunks, message) == [output |-> chunks, error |-> Some(message), panics |-> None]
Panics(chunks, message) == [output |-> chunks, error |-> None, panics |-> Some(message)]

\* A conversion that copies the header to the output before it looks at it.
ConvertEchoingHeader(content, from, to) ==
    IF ReadHeader(content).ok
    THEN Panics(<<[header |-> ReadHeader(content).header]>>, "not implemented")
    ELSE Fails(<<>>, ReadHeader(content).error)

\* convert(i, o, input_format, format), up to the writes: what it hands to
\* o, in order, and how it ends if every write succeeds.
Convert(content, from, to) ==
    CASE from.kind = "Obj" /\ to.kind = "Cem" /\ to.version = <<2, 0>> ->
            LET parsed == ReadObj(content)
            IN  IF ~parsed.ok THEN Fails(<<>>, parsed.error)
                ELSE IF parsed.objects = <<>>
                THEN Panics(<<>>, "index out of bounds")
                ELSE IF obj_to_cem(At(parsed.objects, 0)) = None
                THEN Panics(<<>>, "index out of bounds")
                ELSE Returns(<<[scene |-> Unwrap(obj_to_cem(At(parsed.objects, 0)))]>>)
      [] from.kind = "Cem" /\ from.version = <<2, 0>>
            /\ to.kind = "Cem" /\ to.version = <<2, 0>> ->
            LET header == ReadHeader(content)
            IN  IF ~header.ok THEN Fails(<<>>, header.error)
                ELSE IF header.header # V2Header
                THEN Panics(<<>>, "not implemented: Cannon rewrite non-CEMv2 files yet.")
                ELSE IF ~content.complete THEN Fails(<<>>, "failed to fill whole buffer")
                ELSE Returns(<<[scene |-> content.model]>>)
      [] from.kind = "Cem" /\ to.kind = "Obj" ->
            LET header == ReadHeader(content)
            IN  IF ~header.ok THEN Fails(<<>>, header.error)
                ELSE IF header.header # V2Header
                THEN Panics(<<>>, "not implemented: Cannon convert non-CEMv2 files to OBJ yet.")
                ELSE IF ~content.complete THEN Fails(<<>>, "failed to fill whole buffer")
                ELSE IF from.frame_index >= Len(content.model.frames)
                THEN Fails(<<>>, "Tried to extract frame index")
                ELSE Returns(<<[text |-> cem2_to_obj(content.model, from.frame_index)]>>)
      [] OTHER -> Panics(<<>>, "not implemented")

InputPaths == {"model.in", "missing.in"}
OutputPaths == {"model.out", "missing/model.out"}
FormatTokens == {"cem1.3", "cem2", "cem", "ssmf", "obj", "collada"}

\* What the output file held before the run.
OldOutput == <<[old |-> TRUE]>>

\* A write that fails leaves this behind.
Partial == [partial |-> TRUE]

ImportIdle ==
    /\ entry = "main"
    /\ object = Obj(BaseAttrs, <<>>)
    /\ object_frames = <<>>
    /\ index = 0
    /\ failed_index = None
    /\ examined = <<>>
    /\ associations = <<>>
    /\ reverse = <<>>
    /\ triangles = <<>>
    /\ cursor = 0
    /\ frames = <<>>
    /\ center = Origin
    /\ model = NoModel
    /\ ObjIdle

\* Opt::from_args() has run; the input is either the file or standard input.
InitMain ==
    /\ ImportIdle
    /\ pc = "parse_format"
    /\ panic = None
    /\ opt \in [input : {None} \cup {Some(p) : p \in InputPaths},
                input_format : {None} \cup {Some(t) : t \in FormatTokens},
                format : FormatTokens,
                frame_index : {None} \cup {Some(n) : n \in 0..MaxFrameArg},
                output : {None} \cup {Some(p) : p \in OutputPaths}]
    /\ \E content \in Contents :
          /\ files = [p \in {"model.in", "model.out"} |->
                        IF p = "model.in" THEN <<content>> ELSE OldOutput]
          /\ stdin = Some(content)
    /\ format = None
    /\ input_format = None
    /\ i_stream = None
    /\ o_stream = None
    /\ stdout = <<>>
    /\ disk_full \in BOOLEAN
    /\ stderr = <<>>

\* let format = match Format::parse(&opt.format, opt.frame_index) { ... }
ParseFormat ==
    /\ entry = "main" /\ pc = "parse_format"
    /\ IF FormatParse(opt.format, opt.frame_index) = None
       THEN /\ stderr' = Append(stderr, <<"Unrecognized output format", opt.format>>)
            /\ pc' = "exit"
            /\ UNCHANGED format
       ELSE /\ format' = FormatParse(opt.format, opt.frame_index)
            /\ pc' = "parse_input_format"
            /\ UNCHANGED stderr
    /\ UNCHANGED <<importVars, panic, opt, files, stdin, input_format, i_stream,
                   o_stream, stdout, disk_full>>

\* let input_format = match Format::parse(..) { Some(f) => f, None => Cem 2.0 }
ParseInputFormat ==
    /\ entry = "main" /\ pc = "parse_input_format"
    /\ input_format' = Some(InputFormatOf(opt))
    /\ pc' = "open_input"
    /\ UNCHANGED <<importVars, panic, opt, files, stdin, format, i_stream, o_stream,
                   stdout, disk_full, stderr>>

\* The input opened only once the output file has been created.
OpenInputAfterCreate ==
    /\ entry = "main" /\ pc = "open_input"
    /\ files' = IF opt.output # None /\ Unwrap(opt.output) \in DOMAIN files
                THEN [files EXCEPT ![Unwrap(opt.output)] = <<>>]
                ELSE files
    /\ IF opt.input = None
       THEN /\ i_stream' = stdin
            /\ pc' = "create_output"
            /\ UNCHANGED stderr
       ELSE IF Unwrap(opt.input) \in DOMAIN files
       THEN /\ i_stream' = Some(files[Unwrap(opt.input)][1])
            /\ pc' = "create_output"
            /\ UNCHANGED stderr
       ELSE /\ stderr' = Append(stderr,
                    <<IF opt.output = None
                      THEN "error: failed to open the input file at"
                      ELSE "error: failed open the input file at", Unwrap(opt.input)>>)
            /\ pc' = "exit"
            /\ UNCHANGED i_stream
    /\ UNCHANGED <<importVars, panic, opt, stdin, format, input_format,
                   o_stream, stdout, disk_full>>

\* The first argument of convert: stdin.lock() or File::open(&path).
OpenInput ==
    /\ entry = "main" /\ pc = "open_input"
    /\ IF opt.input = None
       THEN /\ i_stream' = stdin
            /\ pc' = "create_output"
            /\ UNCHANGED stderr
       ELSE IF Unwrap(opt.input) \in DOMAIN files
       THEN /\ i_stream' = Some(files[Unwrap(opt.input)][1])
            /\ pc' = "create_output"
            /\ UNCHANGED stderr
       ELSE /\ stderr' = Append(stderr,
                    <<IF opt.output = None
                      THEN "error: failed to open the input file at"
                      ELSE "error: failed open the input file at", Unwrap(opt.input)>>)
            /\ pc' = "exit"
            /\ UNCHANGED i_stream
    /\ UNCHANGED <<importVars, panic, opt, files, stdin, format, input_format,
                   o_stream, stdout, disk_full>>

\* The second argument of convert: stdout.lock() or File::create(&path),
\* which truncates a file that exists.
CreateOutput ==
    /\ entry = "main" /\ pc = "create_output"
    /\ IF opt.output = None
       THEN /\ o_stream' = Some("stdout")
            /\ pc' = "convert"
            /\ UNCHANGED <<files, stderr>>
       ELSE IF Unwrap(opt.output) \in DOMAIN files
       THEN /\ o_stream' = opt.output
            /\ files' = [files EXCEPT ![Unwrap(opt.output)] = <<>>]
            /\ pc' = "convert"
            /\ UNCHANGED stderr
       ELSE /\ stderr' = Append(stderr,
                    <<"error: failed to create the output file at", Unwrap(opt.output)>>)
            /\ pc' = "exit"
            /\ UNCHANGED <<o_stream, files>>
    /\ UNCHANGED <<importVars, panic, opt, stdin, format, input_format, i_stream,
                   stdout, disk_full>>

\* convert(..) and the report of its error.  A write to a full disk leaves a
\* part of the chunk behind and returns the error.
RunConvert ==
    /\ entry = "main" /\ pc = "convert"
    /\ LET r == Convert(Unwrap(i_stream), Unwrap(input_format), Unwrap(format))
           full == disk_full /\ r.output # <<>>
           written == IF full THEN <<Partial>> ELSE r.output
       IN  /\ IF o_stream = Some("stdout")
              THEN /\ stdout' = stdout \o written
                   /\ UNCHANGED files
              ELSE /\ files' = [files EXCEPT ![Unwrap(o_stream)] = @ \o written]
                   /\ UNCHANGED stdout
           /\ panic' = IF full THEN None ELSE r.panics
           /\ stderr' = IF full
                        THEN Append(stderr, <<"error: conversion failed", "No space left on device">>)
                        ELSE IF r.error # None
                        THEN Append(stderr, <<"error: conversion failed", Unwrap(r.error)>>)
                        ELSE stderr
    /\ pc' = "exit"
    /\ UNCHANGED <<importVars, opt, stdin, format, input_format, i_stream, o_stream,
                   disk_full>>

NextMain ==
    \/ ParseFormat
    \/ ParseInputFormat
    \/ OpenInput
    \/ CreateOutput
    \/ RunConvert

SpecMain == InitMain /\ [][NextMain]_vars

-----------------------------------------------------------------------------
Init == InitCollada \/ InitObj

Next ==
    \/ ValidateFrame
    \/ FinishValidation
    \/ DedupStep
    \/ ExtractBase
    \/ ExtractAdditional
    \/ AssembleCollada
    \/ ResolveStep
    \/ AssembleObj
    \/ BeginExport
    \/ EmitVertex
    \/ EmitMaterials

Spec == Init /\ [][Next]_vars

-----------------------------------------------------------------------------
(* Properties of the importers                                              *)

IsTriangle(shape) == shape.kind = "Triangle"

\* The triangle primitives among the first n shapes of o, in source order.
TrianglesOf(o, n) == SelectSeq(SubSeq(Shapes(o), 1, n), IsTriangle)

\* Their corners, in source order: VTNIndex values.
CornersOf(o, n) ==
    Flatten([t \in 1..Len(TrianglesOf(o, n)) |-> TrianglesOf(o, n)[t].v])

\* The distinct canonical triples the triangle corners of o reference.
CanonicalTriples(o) ==
    {Canonical(o, CornersOf(o, Len(Shapes(o)))[k]) :
        k \in 1..Len(CornersOf(o, Len(Shapes(o))))}

\* The elements of s without repetition, each where it first occurs.
RECURSIVE FirstSeen(_)
FirstSeen(s) ==
    IF s = <<>> THEN <<>>
    ELSE LET front == SubSeq(s, 1, Len(s) - 1)
         IN  IF \E j \in 1..Len(front) : front[j] = Last(s)
             THEN FirstSeen(front)
             ELSE Append(FirstSeen(front), Last(s))

\* The zero-based place of x in s.
PlaceIn(s, x) == (CHOOSE j \in 1..Len(s) : s[j] = x) - 1

\* The importer has returned its model (it may since have been exported).
Imported == pc \in {"done", "emit_vertices", "exported"}

\* The shapes the running importer has gone through.
Walked == IF pc \in {"dedup", "resolve"} THEN cursor
          ELSE IF pc \in {"validate", "validated"} THEN 0
          ELSE Len(Shapes(object))

\* C1: in both importers the number of flat vertices is the number of distinct
\* canonical triples the corners of the base's triangles reference, not the
\* number of corners: in every frame of the returned model, in the material's
\* vertex count, and in the association list behind them.
C1_FlatVertexCount ==
    Imported =>
        /\ \A f \in 1..Len(model.frames) :
              Len(model.frames[f].vertices) = Cardinality(CanonicalTriples(object))
        /\ model.materials[1].vertex_count = Cardinality(CanonicalTriples(object))
        /\ entry = "collada" => Len(associations) = Cardinality(CanonicalTriples(object))
        /\ entry = "obj" => Len(vertices) = Cardinality(CanonicalTriples(object))

\* The quad: 2 triangles, 6 corner references, 4 flat vertices, in a model of
\* three frames.
C1_Witness ==
    /\ entry = "collada" /\ pc = "done"
    /\ Len(model.frames) = 3
    /\ Len(model.lod_levels[1]) = 2
    /\ Len(CornersOf(object, Len(Shapes(object)))) = 6
    /\ Len(model.frames[3].vertices) = 4

\* C2: validation examines the candidates in linkage order and stops at the
\* first that fails: the index reported is the position of the first failing
\* candidate, every candidate before it passed, and none after it is examined.
C2_FirstFailureReported ==
    /\ examined = [k \in 1..Len(examined) |-> k - 1]
    /\ failed_index # None =>
          /\ ~FramePasses(object, At(object_frames, Unwrap(failed_index)))
          /\ \A j \in 0..(Unwrap(failed_index) - 1) :
                FramePasses(object, At(object_frames, j))
          /\ Len(examined) = Unwrap(failed_index) + 1
    /\ (entry = "collada" /\ pc = "panicked" /\ failed_index # None) =>
          panic = Some(<<"uses different geometry", Unwrap(failed_index)>>)
    /\ (entry = "collada" /\ pc \notin {"validate", "validated"} /\ failed_index = None) =>
          \A j \in 0..(Len(object_frames) - 1) : FramePasses(object, At(object_frames, j))

\* The first of three candidates passes, the second fails, the third would
\* fail too and is never examined.
C2_Witness ==
    /\ entry = "collada" /\ pc = "panicked"
    /\ Len(object_frames) = 3
    /\ failed_index = Some(1)
    /\ ~FramePasses(object, At(object_frames, 2))
    /\ examined = <<0, 1>>

\* A candidate that differs from the base in attribute values only.
OnlyValuesDiffer(base, frame) ==
    /\ frame.geometry = base.geometry
    /\ Len(frame.vertices) = Len(base.vertices)
    /\ Len(frame.tex_vertices) = Len(base.tex_vertices)
    /\ Len(frame.normals) = Len(base.normals)

\* C3: with n candidates that differ from the base in attribute values only,
\* validation succeeds, and the model returned has 1 + n frames, the base's
\* first and the candidates' in linkage order, one triangle buffer, and the
\* same number of vertices in every frame.
C3_FramesShareTopology ==
    (/\ entry = "collada"
     /\ \A k \in 1..Len(object_frames) : OnlyValuesDiffer(object, object_frames[k]))
    => /\ failed_index = None
       /\ ~(pc = "panicked" /\ panic[1][1] = "uses different geometry")
       /\ Imported =>
            /\ Len(model.frames) = 1 + Len(object_frames)
            /\ Len(model.lod_levels) = 1
            /\ model.lod_levels[1] = triangles
            /\ \A f, g \in 1..Len(model.frames) :
                  Len(model.frames[f].vertices) = Len(model.frames[g].vertices)
            /\ \A f \in 1..Len(model.frames) :
                  Len(model.frames[f].vertices) = Len(associations)
            /\ \A f \in 1..Len(model.frames), j \in 1..Len(associations) :
                  LET from == IF f = 1 THEN object ELSE object_frames[f - 1]
                  IN  model.frames[f].vertices[j].position
                        = RotateXPlus90(At(from.vertices, associations[j][1]))

\* Two candidates with other values than the base's.
C3_Witness ==
    /\ entry = "collada" /\ pc = "done"
    /\ Len(object_frames) = 2
    /\ object_frames[1].vertices # object.vertices
    /\ object_frames[2].vertices = object.vertices
    /\ Len(model.frames) = 3

\* C9: flat indices follow first encounter: after any number of shapes the
\* association list is the list of the distinct canonical triples of the
\* corners walked so far, each where it first occurred, and the table maps
\* each triple to its place in that list; every corner, met for the first
\* time or again, was given that place as its flat index.  In obj_to_cem the
\* vertex list takes the association list's place.
C9_FirstEncounterOrder ==
    /\ (entry = "collada" /\ pc # "panicked") =>
          /\ associations =
                FirstSeen([k \in 1..Len(CornersOf(object, Walked)) |->
                              Canonical(object, CornersOf(object, Walked)[k])])
          /\ DOMAIN reverse = {associations[k] : k \in 1..Len(associations)}
          /\ \A k \in 1..Len(associations) : reverse[associations[k]] = k - 1
          /\ \A t \in 1..Len(triangles), k \in 1..3 :
                triangles[t][k] =
                    PlaceIn(associations,
                            Canonical(object, TrianglesOf(object, Walked)[t].v[k]))
    /\ (entry = "obj" /\ pc # "panicked") =>
          LET seen == FirstSeen(CornersOf(object, Walked))
          IN  /\ Len(vertices) = Len(seen)
              /\ DOMAIN vertex_associations = {seen[k] : k \in 1..Len(seen)}
              /\ \A k \in 1..Len(seen) :
                    /\ vertex_associations[seen[k]] = k - 1
                    /\ vertices[k] = ResolveVertex(object, seen[k])
              /\ \A t \in 1..Len(triangles), k \in 1..3 :
                    triangles[t][k] = PlaceIn(seen, TrianglesOf(object, Walked)[t].v[k])

\* The quad: its second triangle meets two triples again and adds a fourth.
C9_Witness ==
    /\ entry = "obj" /\ pc = "done"
    /\ Len(triangles) = 2
    /\ triangles[1] = <<0, 1, 2>>
    /\ triangles[2] = <<0, 2, 3>>

\* C10: the triangle buffer has one entry per triangle primitive walked, in
\* source order (lines and points add nothing), and the flat indices of the
\* i-th entry lead back to the triples of the i-th triangle's first, second
\* and third corner, in that order.
C10_WindingPreserved ==
    LET tris == TrianglesOf(object, Walked)
    IN  /\ pc # "panicked" => Len(triangles) = Len(tris)
        /\ (entry = "collada" /\ pc # "panicked") =>
              \A t \in 1..Len(triangles), k \in 1..3 :
                  At(associations, triangles[t][k]) = Canonical(object, tris[t].v[k])
        /\ (entry = "obj" /\ pc # "panicked") =>
              \A t \in 1..Len(triangles), k \in 1..3 :
                  /\ vertex_associations[tris[t].v[k]] = triangles[t][k]
                  /\ At(vertices, triangles[t][k]) = ResolveVertex(object, tris[t].v[k])
        /\ Imported => model.lod_levels = <<triangles>>

\* Two triangles out of four shapes, the second with another winding than
\* the quad's.
C10_Witness ==
    /\ entry = "collada" /\ pc = "done"
    /\ Len(Shapes(object)) = 4
    /\ Len(model.lod_levels[1]) = 2
    /\ model.lod_levels[1][2] = <<0, 3, 2>>

\* The lines of the emitted text that carry the given tag, in order.
Emitted(tag) == SelectSeq(string, LAMBDA l : l.tag = tag)

SourceTriangles == TrianglesOf(object, Len(Shapes(object)))

\* The emitted faces are the source's triangles, and every corner of a face
\* names the source corner's position.
RoundTripPositions ==
    LET faces == Emitted("f")
    IN  /\ Len(faces) = Len(SourceTriangles)
        /\ \A t \in 1..Len(faces), k \in 1..3 :
              Emitted("v")[faces[t].args[k][1]].args
                  = At(object.vertices, SourceTriangles[t].v[k][1])

\* C4 as claimed: obj_to_cem followed by cem2_to_obj emits one face per
\* source triangle, and every emitted corner carries the source corner's
\* position and the source corner's normal, whatever the source normal.
C4_RoundTripIdentity ==
    (entry = "obj" /\ pc = "exported") =>
        /\ RoundTripPositions
        /\ \A t \in 1..Len(SourceTriangles), k \in 1..3 :
              LET corner == SourceTriangles[t].v[k]
              IN  corner[3] # None =>
                    Emitted("vn")[Emitted("f")[t].args[k][3]].args
                        = At(object.normals, Unwrap(corner[3]))

\* C4 as amended: the position is the source's; the normal is the source
\* normal scaled to unit length (the source normal itself when it has unit
\* length), and NaN in every component when the source normal is zero.
C4_RoundTripNormalized ==
    (entry = "obj" /\ pc = "exported") =>
        /\ RoundTripPositions
        /\ \A t \in 1..Len(SourceTriangles), k \in 1..3 :
              LET corner == SourceTriangles[t].v[k]
                  e == Emitted("vn")[Emitted("f")[t].args[k][3]].args
              IN  corner[3] # None =>
                    LET n == At(object.normals, Unwrap(corner[3]))
                        len2 == n[1] * n[1] + n[2] * n[2] + n[3] * n[3]
                    IN  IF len2 = 0 THEN e = NaNVec
                        ELSE /\ e # NaNVec
                             /\ e[1] * e[1] + e[2] * e[2] + e[3] * e[3] = 1
                             /\ \A c \in 1..3 : e[c] * ISqrt(len2) = n[c]

\* The quad with a normal of length 2 comes back with two faces and the
\* normal of length 1.
C4_Witness ==
    /\ entry = "obj" /\ pc = "exported"
    /\ Len(Emitted("f")) = 2
    /\ At(object.normals, 0) = <<0, 2, 0>>
    /\ Emitted("vn")[Emitted("f")[1].args[3][3]].args = <<0, 1, 0>>
    /\ Emitted("v")[Emitted("f")[2].args[3][1]].args = <<0, 4, 6>>

\* C7 as claimed: the center is computed once, from the base frame, and every
\* frame of the model, the additional ones included, is built with it.
C7_CenterComputedOnce ==
    (entry = "collada" /\ Imported) =>
        /\ model.center = CenterOf(Positions(model.frames[1].vertices))
        /\ \A f \in 1..Len(model.frames) : model.frames[f].center = model.center

\* The flat vertices, one per frame, that the k-th corner of the t-th
\* triangle became.
FlatVerticesOf(t, k) ==
    {At(model.frames[f].vertices, model.lod_levels[1][t][k]) :
        f \in 1..Len(model.frames)}

\* C8 as claimed: in both importers and in every frame, a corner without
\* texture reference becomes a flat vertex with texture coordinate (0,0), a
\* corner without normal reference one with normal (1,0,0).
C8_DefaultsAsClaimed ==
    Imported =>
        \A t \in 1..Len(SourceTriangles), k \in 1..3 :
            \A vertex \in FlatVerticesOf(t, k) :
                /\ SourceTriangles[t].v[k][2] = None => vertex.texture = <<0, 0>>
                /\ SourceTriangles[t].v[k][3] = None => vertex.normal = <<1, 0, 0>>

\* C8 as amended: obj_to_cem gives (0,0); convert flips V as for every other
\* texture coordinate, so its flat vertex has (0,1).  The normal is (1,0,0)
\* in both.
C8_DefaultsPerGrammar ==
    Imported =>
        \A t \in 1..Len(SourceTriangles), k \in 1..3 :
            \A vertex \in FlatVerticesOf(t, k) :
                /\ SourceTriangles[t].v[k][2] = None =>
                      vertex.texture = IF entry = "collada" THEN <<0, 1>> ELSE <<0, 0>>
                /\ SourceTriangles[t].v[k][3] = None => vertex.normal = <<1, 0, 0>>

\* Three frames whose source arrays hold other values at index 0 than the
\* defaults; the quad's first corner has neither reference.
C8_Witness ==
    /\ entry = "collada" /\ pc = "done"
    /\ Len(model.frames) = 3
    /\ SourceTriangles[1].v[1] = <<0, None, None>>
    /\ At(object_frames[1].tex_vertices, 0) = <<1, 1>>
    /\ At(object_frames[1].normals, 0) = <<0, 0, 1>>
    /\ At(model.frames[2].vertices, 0).texture = <<0, 1>>
    /\ At(model.frames[2].vertices, 0).normal = <<1, 0, 0>>

-----------------------------------------------------------------------------
(* Properties of the command line                                           *)

\* The run has ended with a diagnostic or a panic that is not the failure of
\* a write.
FatalEnd ==
    /\ pc = "exit"
    /\ \/ panic # None
       \/ stderr # <<>> /\ Last(stderr)[2] # "No space left on device"

\* Nothing was written to standard output nor to the output file (which is
\* as it was, or was truncated when it was created).
NothingWritten ==
    /\ stdout = <<>>
    /\ files["model.out"] \in {OldOutput, <<>>}

\* C5: a run of main that ends in a fatal condition (the input cannot be
\* opened, the OBJ text is malformed, the header is not CEM v2, the format
\* combination is unsupported, there is no object) has written nothing to
\* its output.
C5_AllOrNothing ==
    (entry = "main" /\ FatalEnd) => NothingWritten

\* The header of the input is not CEM v2: the output file was created, the
\* conversion panicked, the file is empty.
C5_Witness ==
    /\ entry = "main" /\ pc = "exit"
    /\ panic = Some("not implemented: Cannon convert non-CEMv2 files to OBJ yet.")
    /\ o_stream = Some("model.out")
    /\ files["model.out"] = <<>>

Recognized == {"cem1.3", "cem2", "cem", "ssmf", "obj"}

\* C6 as claimed: an unrecognized token, in the output-format flag or in the
\* input-format flag, ends the run with a diagnostic before any stream is
\* opened; an absent input-format flag means CEM 2.0.
C6_UnrecognizedTokenFatal ==
    entry = "main" =>
        /\ (\/ opt.format \notin Recognized
            \/ opt.input_format # None /\ Unwrap(opt.input_format) \notin Recognized)
           => /\ pc \in {"parse_format", "parse_input_format", "exit"}
              /\ i_stream = None /\ o_stream = None
              /\ pc = "exit" => stderr # <<>> /\ NothingWritten
        /\ (opt.input_format = None /\ input_format # None)
           => Unwrap(input_format).kind = "Cem" /\ Unwrap(input_format).version = <<2, 0>>

-----------------------------------------------------------------------------
(* Validation and materialisation of the frames                             *)

SameCounts(base, frame) ==
    /\ Len(frame.vertices) = Len(base.vertices)
    /\ Len(frame.normals) = Len(base.normals)
    /\ Len(frame.tex_vertices) = Len(base.tex_vertices)

\* The condition as claimed: the same primitive kinds in the same places, and
\* the same indices at the corners of the triangles.
PassesAsClaimed(base, frame) ==
    /\ SameCounts(base, frame)
    /\ Len(frame.geometry) = Len(base.geometry)
    /\ \A g \in 1..Len(base.geometry) :
          /\ Len(frame.geometry[g].shapes) = Len(base.geometry[g].shapes)
          /\ \A k \in 1..Len(base.geometry[g].shapes) :
                LET b == base.geometry[g].shapes[k]
                    f == frame.geometry[g].shapes[k]
                IN  /\ f.kind = b.kind
                    /\ b.kind = "Triangle" => \A c \in 1..3 : f.v[c] = b.v[c]

\* The condition as amended: the same indices at the corners of every
\* primitive, points and lines included.
PassesAsAmended(base, frame) ==
    /\ SameCounts(base, frame)
    /\ Len(frame.geometry) = Len(base.geometry)
    /\ \A g \in 1..Len(base.geometry) :
          /\ Len(frame.geometry[g].shapes) = Len(base.geometry[g].shapes)
          /\ \A k \in 1..Len(base.geometry[g].shapes) :
                LET b == base.geometry[g].shapes[k]
                    f == frame.geometry[g].shapes[k]
                IN  /\ f.kind = b.kind
                    /\ \A c \in 1..Len(b.v) : f.v[c] = b.v[c]

\* The candidate at index j was examined and the loop went on past it.
Passed(j) == j < Len(examined) /\ failed_index # Some(j)

\* The candidate at index j was examined and the loop broke on it.
Rejected(j) == j < Len(examined) /\ failed_index = Some(j)

\* C11 as claimed: a candidate passes validation exactly when its counts are
\* the base's and its primitives have the base's kinds, place by place, with
\* the base's indices at the corners of the triangles.
C11_PassesExactlyAsClaimed ==
    entry = "collada" =>
        \A j \in 0..(Len(object_frames) - 1) :
            /\ Passed(j) => PassesAsClaimed(object, At(object_frames, j))
            /\ Rejected(j) => ~PassesAsClaimed(object, At(object_frames, j))

\* C11 as amended: ... with the base's indices at the corners of every
\* primitive (points, lines and triangles); a difference in attribute values
\* never makes a candidate fail.
C11_PassesExactlyAsAmended ==
    entry = "collada" =>
        \A j \in 0..(Len(object_frames) - 1) :
            /\ Passed(j) => PassesAsAmended(object, At(object_frames, j))
            /\ Rejected(j) => ~PassesAsAmended(object, At(object_frames, j))

\* A candidate with other values passed, and the next one, which differs from
\* the base in the indices of a line only, was rejected.
C11_Witness ==
    /\ entry = "collada" /\ pc = "panicked"
    /\ Passed(0) /\ At(object_frames, 0).vertices # object.vertices
    /\ Rejected(1)
    /\ PassesAsClaimed(object, At(object_frames, 1))

\* The object the f-th frame (from 1) is made from.
SourceOf(f) == IF f = 1 THEN object ELSE object_frames[f - 1]

\* The vertex at flat index j (from 1) takes its attributes from the arrays of
\* src at the places the recorded triple names.
TakenFrom(vertex, src, triple) ==
    /\ InRange(src.vertices, triple[1])
    /\ vertex.position = RotateXPlus90(At(src.vertices, triple[1]))
    /\ InRange(src.tex_vertices, triple[2]) =>
          vertex.texture = <<At(src.tex_vertices, triple[2])[1],
                             1 - At(src.tex_vertices, triple[2])[2]>>
    /\ InRange(src.normals, triple[3]) =>
          vertex.normal = RotateXPlus90(Normalize(At(src.normals, triple[3])))

\* C12: deduplication starts only when every candidate has been validated,
\* and runs against the base alone; every frame, the base's and each
\* candidate's, is made from that one association list, its vertex i taking
\* position, texture coordinate and normal from the frame's own arrays at the
\* recorded triple; the position lookup never fails for a validated candidate
\* (the only index panic is the base's).
C12_FramesFromOneAssociationList ==
    entry = "collada" =>
        /\ pc \in {"validate", "validated"} => associations = <<>> /\ triangles = <<>>
        /\ (associations # <<>> \/ pc \in {"dedup", "frames"} \/ Imported) =>
              /\ failed_index = None
              /\ Len(examined) = Len(object_frames)
        /\ (pc = "frames" \/ Imported) =>
              /\ associations =
                    FirstSeen([k \in 1..Len(CornersOf(object, Len(Shapes(object)))) |->
                        Canonical(object, CornersOf(object, Len(Shapes(object)))[k])])
              /\ \A f \in 1..Len(frames) :
                    /\ Len(frames[f].vertices) = Len(associations)
                    /\ \A j \in 1..Len(associations) :
                          TakenFrom(frames[f].vertices[j], SourceOf(f), associations[j])
        /\ Imported => model.frames = frames /\ Len(frames) = 1 + Len(object_frames)
        /\ (pc = "panicked" /\ panic[1][1] = "index out of bounds") => panic[1][2] = 0

\* Three frames; the second is made from a candidate with other values, its
\* fourth vertex from that candidate's fourth position.
C12_Witness ==
    /\ entry = "collada" /\ pc = "done"
    /\ Len(model.frames) = 3
    /\ object_frames[1].vertices # object.vertices
    /\ associations[4] = <<3, 1, 0>>
    /\ model.frames[2].vertices[4].position = RotateXPlus90(At(object_frames[1].vertices, 3))
    /\ model.frames[2].vertices[4].position # model.frames[1].vertices[4].position

-----------------------------------------------------------------------------
(* Extraction of one frame, and the order of the files                      *)

\* The frame index asked for on the command line: 0 when none is given.
RequestedFrame == IF opt.frame_index = None THEN 0 ELSE Unwrap(opt.frame_index)

\* A run of main from a whole CEM v2 file to OBJ has ended.
ExtractionEnded ==
    /\ entry = "main" /\ pc = "exit"
    /\ format # None /\ input_format # None
    /\ Unwrap(format).kind = "Obj" /\ Unwrap(input_format).kind = "Cem"
    /\ i_stream # None /\ o_stream # None
    /\ Unwrap(i_stream).kind = "cem"
    /\ Unwrap(i_stream).header = V2Header
    /\ Unwrap(i_stream).complete

\* What the run has handed to its output.
Output == IF o_stream = Some("stdout") THEN stdout ELSE files[Unwrap(o_stream)]

\* The "v" lines of a text.
PositionLines(text) == SelectSeq(text, LAMBDA l : l.tag = "v")

\* The positions of a frame as cem2_to_obj writes them: turned by -90
\* degrees about x.
WrittenPositions(frame) ==
    [k \in 1..Len(frame.vertices) |->
        <<frame.vertices[k].position[1], frame.vertices[k].position[3],
          -frame.vertices[k].position[2]>>]

\* C13: converting a CEM v2 model to OBJ with a frame index at or beyond the
\* model's number of frames (the default 0 against a model without frames
\* included) ends in the error and hands nothing to the output; with an index
\* below the number of frames the vertices written are those of that frame
\* and of no other.
C13_FrameIndexChecked ==
    ExtractionEnded =>
        LET cem == Unwrap(i_stream).model
        IN  IF RequestedFrame >= Len(cem.frames)
            THEN /\ stderr = <<<<"error: conversion failed", "Tried to extract frame index">>>>
                 /\ panic = None
                 /\ Output = <<>> /\ stdout = <<>>
            ELSE /\ panic = None
                 /\ ~disk_full =>
                       /\ stderr = <<>>
                       /\ Len(Output) = 1
                       /\ [k \in 1..Len(PositionLines(Output[1].text)) |->
                              PositionLines(Output[1].text)[k].args]
                            = WrittenPositions(At(cem.frames, RequestedFrame))

\* No frame index is given and the model has no frame: the error, and an
\* output file that was created and left empty.
C13_Witness ==
    /\ ExtractionEnded
    /\ opt.frame_index = None
    /\ Unwrap(i_stream).model.frames = <<>>
    /\ o_stream = Some("model.out")
    /\ files["model.out"] = <<>>
    /\ stderr = <<<<"error: conversion failed", "Tried to extract frame index">>>>

\* main has reported that it could not open the input or create the output.
OpenFailed ==
    \E k \in 1..Len(stderr) :
        stderr[k][1] \in {"error: failed open the input file at",
                          "error: failed to open the input file at"}

CreateFailed ==
    \E k \in 1..Len(stderr) : stderr[k][1] = "error: failed to create the output file at"

\* convert has not run: it has written nothing, has not panicked and has
\* reported no error.
NeverConverted ==
    /\ stdout = <<>>
    /\ files["model.out"] \in {OldOutput, <<>>}
    /\ panic = None
    /\ \A k \in 1..Len(stderr) : stderr[k][1] # "error: conversion failed"

\* C14: with an input path and an output path, the output file is created
\* (and truncated) only when the input file has been opened; when the input
\* cannot be opened the run ends with the diagnostic that names the path and
\* the output file is as it was; after a failure to open or to create a file
\* the run has ended and convert has not run.
C14_InputOpenedFirst ==
    entry = "main" =>
        /\ (o_stream # None \/ files["model.out"] # OldOutput) => i_stream # None
        /\ (/\ opt.input # None /\ opt.output # None
            /\ Unwrap(opt.input) \notin DOMAIN files
            /\ input_format # None /\ pc # "open_input") =>
              /\ pc = "exit"
              /\ stderr = <<<<"error: failed open the input file at", Unwrap(opt.input)>>>>
              /\ i_stream = None /\ o_stream = None
              /\ files["model.out"] = OldOutput
              /\ DOMAIN files = {"model.in", "model.out"}
        /\ OpenFailed => i_stream = None /\ o_stream = None
        /\ CreateFailed => o_stream = None /\ files["model.out"] = OldOutput
        /\ (OpenFailed \/ CreateFailed) =>
              /\ pc = "exit"
              /\ Len(stderr) = 1
              /\ NeverConverted

\* The input path names no file and the output path names one that exists:
\* the run has ended with the diagnostic, the output file is untouched.
C14_Witness ==
    /\ entry = "main" /\ pc = "exit"
    /\ opt.input = Some("missing.in") /\ opt.output = Some("model.out")
    /\ stderr = <<<<"error: failed open the input file at", "missing.in">>>>
    /\ o_stream = None
    /\ files["model.out"] = OldOutput

=============================================================================
